---- MODULE Spec2Model ----
(***************************************************************************)
(* QuMultiReader (cumbia-multiread-plugin): the scatter/gather scheduler   *)
(* that registers sources at indices, issues read commands, accumulates    *)
(* results in databuf, detects a complete cycle, retries the lowest        *)
(* missing index and re-arms the one-shot timer.                           *)
(*                                                                         *)
(* Modelled from src/qumultireader.cpp.  The reader engine (CuContext,     *)
(* CuControlsReaderA), QTimer and the signal receivers are collaborators:  *)
(* the model keeps what the scheduler hands to them (calls, emitted) and   *)
(* what they hand back (results, timer expiry).                            *)
(***************************************************************************)
EXTENDS Integers, Sequences, FiniteSets, TLC

VARIABLES
    context,          \* d->context: "null" until init, then "ctx"
    manual_mode_code, \* d->manual_mode_code
    sequential,       \* d->sequential
    period,           \* d->period
    timer,            \* d->timer: [created, active, interval]
    readersMap,       \* d->readersMap: source -> "live" | "null" (a null pointer)
    idx_src_map,      \* d->idx_src_map: index -> source
    databuf,          \* d->databuf: index -> CuData
    ctxReaders,       \* collaborator: sources that have a live reader in the CuContext
    pending,          \* collaborator: read commands delivered to a reader and not yet answered
    calls,            \* calls made to the collaborators by the last operation, in order
    emitted,          \* signals emitted by the last operation, in order
    lastOp,           \* the name of the last operation
    ncalls,           \* configuration calls made by the client so far
    fresh,            \* history: indices buffered since the last onSeqReadComplete
    crashed           \* the process died on a null pointer dereference

vars == <<context, manual_mode_code, sequential, period, timer, readersMap,
          idx_src_map, databuf, ctxReaders, pending, calls, emitted, lastOp,
          ncalls, fresh, crashed>>

(***************************************************************************)
(* Bounds of the model                                                     *)
(***************************************************************************)
MaxIndex == 2       \* sources are registered at indices 0..MaxIndex
MaxVal == 1         \* distinct payload values a result may carry
MaxPending == 2     \* read commands that may be outstanding at once
MaxCalls == 2       \* configuration calls the client makes after init

(***************************************************************************)
(* Program constants                                                       *)
(***************************************************************************)
DefaultPeriod == 1000
ConcurrentReads == 0
SequentialReads == 1
SequentialManual == 2
NoMatch == -1
DefaultKey == 0

(***************************************************************************)
(* Strings are sequences of characters, so that section() can be computed. *)
(***************************************************************************)
SrcA == <<"A">>
SrcB == <<"B">>
SrcC == <<"C">>
SrcCArgs == <<"C", "(", "1", ")">>
SrcCOther == <<"C", "(", "2", ")">>
SrcX == <<"X">>
SrcAlias == <<"a">>
EmptyStr == <<>>

RegIds == {SrcA, SrcB, SrcC, SrcCOther}  \* canonical ids a reader may have
InsertIds == {SrcA, SrcC, SrcCOther}     \* what a client passes to insertSource
RemoveIds == {SrcA, SrcB, SrcX}          \* what a client passes to removeSource
Labels == RegIds \cup {SrcCArgs, SrcX}   \* the "src" a result may carry
Indices == 0..MaxIndex
Vals == 1..MaxVal
Periods == {0, 500, DefaultPeriod}
Modes == {-1, ConcurrentReads, SequentialReads, SequentialManual}
SourceLists == {<<SrcAlias, SrcB>>, <<SrcA, SrcB, SrcC>>, <<SrcB, SrcB>>}

(***************************************************************************)
(* QMap / QString / QSet helpers                                           *)
(***************************************************************************)
Min(S) == CHOOSE x \in S : \A y \in S : x <= y

EmptyMap == [k \in {} |-> 0]

MapPut(m, k, v) == [x \in DOMAIN m \cup {k} |-> IF x = k THEN v ELSE m[x]]

MapRemove(m, k) == [x \in DOMAIN m \ {k} |-> m[x]]

\* QMap::values(): the values in ascending order of their keys
RECURSIVE ValuesFrom(_, _)
ValuesFrom(m, ks) ==
    IF ks = {} THEN <<>>
    ELSE LET k == Min(ks) IN <<m[k]>> \o ValuesFrom(m, ks \ {k})

\* a variant that lists the values in descending order of their keys
MapValuesDescending(m) ==
    LET up == ValuesFrom(m, DOMAIN m)
    IN [k \in 1..Len(up) |-> up[Len(up) + 1 - k]]

MapValues(m) == ValuesFrom(m, DOMAIN m)

\* QMap::key(value): the first key with that value, or a default-constructed key
MapKey(m, v) ==
    IF \E k \in DOMAIN m : m[k] = v
    THEN Min({k \in DOMAIN m : m[k] = v})
    ELSE DefaultKey

\* QString::section('(', 0, 0): the text before the first '('
Section(s) ==
    LET P == {i \in 1..Len(s) : s[i] = "("}
    IN IF P = {} THEN s ELSE SubSeq(s, 1, Min(P) - 1)

\* r->setSource(src); r->source(): the engine's canonical form of src
Canon(src) == IF src = SrcAlias THEN SrcA ELSE src

(***************************************************************************)
(* Records handed to and received from the collaborators                   *)
(***************************************************************************)
CuData(src, v) == [src |-> src, val |-> v]

Call(name, to, arg) == [call |-> name, to |-> to, arg |-> arg]

Signal(name, payload) == [sig |-> name, data |-> payload]

NoTimer == [created |-> FALSE, active |-> FALSE, interval |-> 0]

NoPending == [s \in RegIds |-> 0]

RECURSIVE SumOver(_, _)
SumOver(f, S) ==
    IF S = {} THEN 0
    ELSE LET x == CHOOSE y \in S : TRUE IN f[x] + SumOver(f, S \ {x})

PendingTotal(p) == SumOver(p, DOMAIN p)

RECURSIVE SetToSeq(_)
SetToSeq(S) ==
    IF S = {} THEN <<>>
    ELSE LET x == CHOOSE y \in S : TRUE IN <<x>> \o SetToSeq(S \ {x})

HasReader(rm, s) == s \in DOMAIN rm /\ rm[s] = "live"

\* QMap::operator[] on a non-const map inserts a default value for a missing key
Touch(rm, s) == IF s \in DOMAIN rm THEN rm ELSE MapPut(rm, s, "null")

(***************************************************************************)
(* Construction                                                            *)
(***************************************************************************)
Init ==
    /\ context = "null"
    /\ manual_mode_code = 0
    /\ sequential = FALSE
    /\ period = DefaultPeriod
    /\ timer = NoTimer
    /\ readersMap = EmptyMap
    /\ idx_src_map = EmptyMap
    /\ databuf = EmptyMap
    /\ ctxReaders = {}
    /\ pending = NoPending
    /\ calls = <<>>
    /\ emitted = <<>>
    /\ lastOp = "ctor"
    /\ ncalls = 0
    /\ fresh = {}
    /\ crashed = FALSE

\* The client has called init and the process is alive
Usable == context # "null" /\ ~crashed

\* A configuration call of the client, within the budget of the model
ConfigCall == Usable /\ ncalls < MaxCalls /\ ncalls' = ncalls + 1

(***************************************************************************)
(* init                                                                    *)
(***************************************************************************)
SequentialFromMode(mode) == mode >= 0

init(mode) ==
    /\ context = "null"
    /\ ~crashed
    /\ context' = "ctx"
    /\ manual_mode_code' = mode
    /\ sequential' = SequentialFromMode(mode)
    /\ calls' = <<>>
    /\ emitted' = <<>>
    /\ lastOp' = "init"
    /\ UNCHANGED <<period, timer, readersMap, idx_src_map, databuf, ctxReaders,
                   pending, ncalls, fresh, crashed>>

(***************************************************************************)
(* m_timerSetup                                                            *)
(***************************************************************************)
m_timerSetup(t) ==
    IF ~t.created
    THEN [created |-> TRUE, active |-> FALSE,
          interval |-> IF period > 0 THEN period ELSE 0]
    ELSE t

(***************************************************************************)
(* insertSource, as a function of the registry state                       *)
(***************************************************************************)
RegState(reg, rm, ctx, t, cs) ==
    [reg |-> reg, rm |-> rm, ctx |-> ctx, timer |-> t, calls |-> cs]

\* a variant that accepts every index
RejectedNever(i) == FALSE

\* if(i < 0) perr("QuMultiReader.insertSource: i must be >= 0")
Rejected(i) == i < 0

InsertInto(st, src, i, ok) ==
    IF Rejected(i) THEN st
    ELSE LET c1 == IF sequential
                   THEN Append(st.calls, Call("setOptions", EmptyStr, 1))
                   ELSE st.calls
             c2 == Append(c1, Call("add_reader", src, 0))
             rm1 == IF ok THEN MapPut(st.rm, Canon(src), "live") ELSE st.rm
             reg1 == IF ok THEN MapPut(st.reg, i, Canon(src)) ELSE st.reg
             ctx1 == IF ok THEN st.ctx \cup {Canon(src)} ELSE st.ctx
             t1 == IF Cardinality(DOMAIN reg1) = 1 /\ sequential
                   THEN m_timerSetup(st.timer) ELSE st.timer
         IN RegState(reg1, rm1, ctx1, t1, c2)

insertSource(src, i, ok) ==
    /\ ConfigCall
    /\ \E st \in {InsertInto(RegState(idx_src_map, readersMap, ctxReaders, timer, <<>>),
                             src, i, ok)} :
          /\ idx_src_map' = st.reg
          /\ readersMap' = st.rm
          /\ ctxReaders' = st.ctx
          /\ timer' = st.timer
          /\ calls' = st.calls
    /\ emitted' = <<>>
    /\ lastOp' = "insertSource"
    /\ UNCHANGED <<context, manual_mode_code, sequential, period, databuf,
                   pending, fresh, crashed>>

(***************************************************************************)
(* unsetSources, setSources, removeSource                                  *)
(***************************************************************************)
\* a variant that disposes the readers and keeps the maps
UnsetNothing(cs) ==
    RegState(idx_src_map, readersMap, ctxReaders, timer,
             Append(cs, Call("disposeReader", EmptyStr, 0)))

UnsetAll(cs) ==
    RegState(EmptyMap, EmptyMap, {}, timer, Append(cs, Call("disposeReader", EmptyStr, 0)))

unsetSources ==
    /\ ConfigCall
    /\ \E st \in {UnsetAll(<<>>)} :
          /\ idx_src_map' = st.reg
          /\ readersMap' = st.rm
          /\ ctxReaders' = st.ctx
          /\ calls' = st.calls
    /\ pending' = NoPending
    /\ emitted' = <<>>
    /\ lastOp' = "unsetSources"
    /\ UNCHANGED <<context, manual_mode_code, sequential, period, timer, databuf,
                   fresh, crashed>>

\* a variant that registers the sources that succeed at consecutive indices
RECURSIVE InsertPacked(_, _, _, _, _)
InsertPacked(st, srcs, i, n, failed) ==
    IF i >= Len(srcs) THEN st
    ELSE InsertPacked(InsertInto(st, srcs[i + 1], n, (i \notin failed)), srcs, i + 1,
                      IF i \in failed THEN n ELSE n + 1, failed)

InsertAllPacked(st, srcs, i, failed) == InsertPacked(st, srcs, i, i, failed)

RECURSIVE InsertAll(_, _, _, _)
InsertAll(st, srcs, i, failed) ==
    IF i >= Len(srcs) THEN st
    ELSE InsertAll(InsertInto(st, srcs[i + 1], i, (i \notin failed)), srcs, i + 1, failed)

setSources(srcs, failed) ==
    /\ ConfigCall
    /\ \E st \in {InsertAll(UnsetAll(<<>>), srcs, 0, failed)} :
          /\ idx_src_map' = st.reg
          /\ readersMap' = st.rm
          /\ ctxReaders' = st.ctx
          /\ timer' = st.timer
          /\ calls' = st.calls
    /\ pending' = NoPending
    /\ emitted' = <<>>
    /\ lastOp' = "setSources"
    /\ UNCHANGED <<context, manual_mode_code, sequential, period, databuf,
                   fresh, crashed>>

\* the registry state after removeSource(src)
RemoveFrom(st, src) ==
    RegState(MapRemove(st.reg, MapKey(st.reg, src)), MapRemove(st.rm, src),
             st.ctx \ {src}, st.timer, Append(st.calls, Call("disposeReader", src, 0)))

removeSource(src) ==
    /\ ConfigCall
    /\ \E st \in {RemoveFrom(RegState(idx_src_map, readersMap, ctxReaders, timer, <<>>), src)} :
          /\ ctxReaders' = st.ctx
          /\ idx_src_map' = st.reg
          /\ readersMap' = st.rm
    /\ pending' = [s \in RegIds |-> IF s = src THEN 0 ELSE pending[s]]
    /\ calls' = <<Call("disposeReader", src, 0)>>
    /\ emitted' = <<>>
    /\ lastOp' = "removeSource"
    /\ UNCHANGED <<context, manual_mode_code, sequential, period, timer, databuf,
                   fresh, crashed>>

\* sources(): the registered ids, by ascending index
sources == MapValues(idx_src_map)

(***************************************************************************)
(* setPeriod, setSequential                                                *)
(***************************************************************************)
\* a variant that forwards every period, positive or not
PeriodCommandsAlways(seq, ms, readers) ==
    IF ~seq
    THEN [k \in 1..Len(readers) |-> Call("sendData:period", readers[k], ms)]
    ELSE <<>>

\* the commands setPeriod sends to the readers of the context
PeriodCommands(seq, ms, readers) ==
    IF ~seq /\ ms > 0
    THEN [k \in 1..Len(readers) |-> Call("sendData:period", readers[k], ms)]
    ELSE <<>>

setPeriod(ms) ==
    /\ ConfigCall
    /\ period' = ms
    /\ calls' = PeriodCommands(sequential, ms, SetToSeq(ctxReaders))
    /\ emitted' = <<>>
    /\ lastOp' = "setPeriod"
    /\ UNCHANGED <<context, manual_mode_code, sequential, timer, readersMap,
                   idx_src_map, databuf, ctxReaders, pending, fresh, crashed>>

\* a variant that sets the timer up when the reader becomes sequential
setSequentialWithTimer(seq) ==
    /\ ConfigCall
    /\ sequential' = seq
    /\ timer' = (IF seq THEN m_timerSetup(timer) ELSE timer)
    /\ calls' = <<>>
    /\ emitted' = <<>>
    /\ lastOp' = "setSequential"
    /\ UNCHANGED <<context, manual_mode_code, period, readersMap,
                   idx_src_map, databuf, ctxReaders, pending, fresh, crashed>>

setSequential(seq) ==
    /\ ConfigCall
    /\ sequential' = seq
    /\ calls' = <<>>
    /\ emitted' = <<>>
    /\ lastOp' = "setSequential"
    /\ UNCHANGED <<context, manual_mode_code, period, timer, readersMap,
                   idx_src_map, databuf, ctxReaders, pending, fresh, crashed>>

(***************************************************************************)
(* sendData(const QString&, const CuData&), sendData(int, const CuData&)   *)
(***************************************************************************)
\* [rm, calls] after sendData(s, da)
SendTo(rm, s) ==
    [rm |-> Touch(rm, s),
     calls |-> IF HasReader(rm, s) THEN <<Call("sendData:data", s, 0)>> ELSE <<>>]

sendDataSrc(s) ==
    /\ ConfigCall
    /\ \E r \in {SendTo(readersMap, s)} :
          /\ readersMap' = r.rm
          /\ calls' = r.calls
    /\ emitted' = <<>>
    /\ lastOp' = "sendData"
    /\ UNCHANGED <<context, manual_mode_code, sequential, period, timer,
                   idx_src_map, databuf, ctxReaders, pending, fresh, crashed>>

\* idx_src_map[index] on the non-const map inserts an empty string for a missing index
TouchIndex(reg, index) == IF index \in DOMAIN reg THEN reg ELSE MapPut(reg, index, EmptyStr)

SendToIndex(reg1, rm, index) ==
    IF reg1[index] # EmptyStr THEN SendTo(rm, reg1[index])
    ELSE [rm |-> rm, calls |-> <<>>]

sendDataIdx(index) ==
    /\ ConfigCall
    /\ idx_src_map' = TouchIndex(idx_src_map, index)
    /\ \E r \in {SendToIndex(idx_src_map', readersMap, index)} :
          /\ readersMap' = r.rm
          /\ calls' = r.calls
    /\ emitted' = <<>>
    /\ lastOp' = "sendDataIdx"
    /\ UNCHANGED <<context, manual_mode_code, sequential, period, timer,
                   databuf, ctxReaders, pending, fresh, crashed>>

(***************************************************************************)
(* startRead, called by the client or by the expiry of the timer           *)
(***************************************************************************)
\* outcomes of dereferencing a null pointer: the process dies, or the call is lost
UBOutcomes == {"crash", "lost"}

AddPending(p, s) == [p EXCEPT ![s] = @ + 1]

\* the source startRead addresses: the value mapped to the smallest key
FirstSource(reg) == reg[Min(DOMAIN reg)]

\* [rm, calls, pending, null]: null tells that a null reader was dereferenced
StartReadResult(reg, rm, p) ==
    IF DOMAIN reg = {}
    THEN [rm |-> rm, calls |-> <<>>, pending |-> p, null |-> FALSE]
    ELSE LET src0 == FirstSource(reg)
         IN IF HasReader(rm, src0)
            THEN [rm |-> rm, calls |-> <<Call("sendData:read", src0, 0)>>,
                  pending |-> AddPending(p, src0), null |-> FALSE]
            ELSE [rm |-> Touch(rm, src0), calls |-> <<>>, pending |-> p, null |-> TRUE]

startRead(ub) ==
    /\ Usable
    /\ \E r \in {StartReadResult(idx_src_map, readersMap, pending)} :
          /\ readersMap' = r.rm
          /\ calls' = r.calls
          /\ pending' = r.pending
          /\ (r.null \/ ub = "lost")
          /\ crashed' = (r.null /\ ub = "crash")
    /\ PendingTotal(pending') <= MaxPending
    /\ emitted' = <<>>
    /\ lastOp' = "startRead"
    /\ UNCHANGED <<context, manual_mode_code, sequential, period, timer,
                   idx_src_map, databuf, ctxReaders, ncalls, fresh>>

\* the single-shot timer expires: it becomes inactive and its slot startRead runs
timeout(ub) ==
    /\ Usable
    /\ timer.active
    /\ timer' = [timer EXCEPT !.active = FALSE]
    /\ \E r \in {StartReadResult(idx_src_map, readersMap, pending)} :
          /\ readersMap' = r.rm
          /\ calls' = r.calls
          /\ pending' = r.pending
          /\ (r.null \/ ub = "lost")
          /\ crashed' = (r.null /\ ub = "crash")
    /\ PendingTotal(pending') <= MaxPending
    /\ emitted' = <<>>
    /\ lastOp' = "timeout"
    /\ UNCHANGED <<context, manual_mode_code, sequential, period,
                   idx_src_map, databuf, ctxReaders, ncalls, fresh>>

(***************************************************************************)
(* onUpdate                                                                *)
(***************************************************************************)
\* a variant that compares the whole strings, arguments included
m_matchWithArgs(reg, src) ==
    LET M == {k \in DOMAIN reg : reg[k] = src}
    IN IF M = {} THEN NoMatch ELSE Min(M)

\* a variant that tries the fallback only for a label that carries arguments
m_matchOnlyCalls(reg, src) ==
    LET M == {k \in DOMAIN reg : Section(reg[k]) = Section(src)}
    IN IF Section(src) = src \/ M = {} THEN NoMatch ELSE Min(M)

\* find the index that matches src, discarding args
m_matchNoArgs(reg, src) ==
    LET M == {k \in DOMAIN reg : Section(reg[k]) = Section(src)}
    IN IF M = {} THEN NoMatch ELSE Min(M)

\* a variant that goes straight to the matching without arguments
ResolveNoArgsFirst(reg, from) == m_matchNoArgs(reg, from)

\* srcs.contains(from) ? pos = d->idx_src_map.key(from) : pos = m_matchNoArgs(from)
Resolve(reg, from) ==
    IF \E k \in DOMAIN reg : reg[k] = from
    THEN MapKey(reg, from)
    ELSE m_matchNoArgs(reg, from)

\* a variant that buffers in every mode
BuffersInAnyMode(seq, pos) == pos >= 0

\* a variant that buffers the results that resolve to no index as well
BuffersUnresolved(seq, pos) == seq

\* if(d->sequential && pos >= 0)
Buffers(seq, pos) == seq /\ pos >= 0

\* a variant that only asks for every registered index to be buffered
IsCompleteCovering(buf, reg) == DOMAIN reg \subseteq DOMAIN buf

\* res_idx != idxs, negated
IsComplete(buf, reg) == DOMAIN buf = DOMAIN reg

\* QSet<int> diff = idxs - res_idx
Missing(buf, reg) == DOMAIN reg \ DOMAIN buf

\* a variant that retries the highest missing index
RetryIndexMax(diff) == CHOOSE x \in diff : \A y \in diff : y <= x

\* std::min_element(diff.begin(), diff.end())
RetryIndex(diff) == Min(diff)

\* a variant that keeps the buffer after a complete cycle
ClearedBufKept(buf) == buf

\* d->databuf.clear()
ClearedBuf(buf) == EmptyMap

\* a variant that restarts the timer whatever the period
RearmsAlways(p) == TRUE

\* if(d->period > 0) d->timer->start(d->period)
Rearms(p) == p > 0

TimerStart(t, ms) == [t EXCEPT !.active = TRUE, !.interval = ms]

\* the reader whose result carries the label from, if any
ReaderOf(from) ==
    IF from \in RegIds THEN from
    ELSE IF Section(from) \in RegIds THEN Section(from) ELSE EmptyStr

Answered(p, from) ==
    LET s == ReaderOf(from)
    IN IF s \in RegIds /\ p[s] > 0 THEN [p EXCEPT ![s] = @ - 1] ELSE p

\* a variant that forwards only the results that resolve to a registered index
NewDataEventsIfResolved(data, pos) ==
    IF pos >= 0 THEN <<Signal("onNewData", <<data>>)>> ELSE <<>>

\* emit onNewData(data), whatever pos is
NewDataEvents(data, pos) == <<Signal("onNewData", <<data>>)>>

\* a variant that takes every result as the first one of its index
IsUpdateNever(buf, pos) == FALSE

\* bool update = d->databuf.contains(pos)
IsUpdate(buf, pos) == pos \in DOMAIN buf

\* [buf, rm, timer, calls, emitted, pending, fresh, null] after onUpdate(data)
OnUpdateResult(data, p) ==
    LET pos == Resolve(idx_src_map, data.src)
        news == NewDataEvents(data, pos)
        same == [buf |-> databuf, rm |-> readersMap, timer |-> timer, calls |-> <<>>,
                 emitted |-> news, pending |-> p, fresh |-> fresh, null |-> FALSE]
    IN IF ~Buffers(sequential, pos) THEN same
       ELSE LET update == IsUpdate(databuf, pos)
                buf1 == MapPut(databuf, pos, data)
                fresh1 == fresh \cup {pos}
            IN IF update THEN [same EXCEPT !.buf = buf1, !.fresh = fresh1]
               ELSE IF ~IsComplete(buf1, idx_src_map)
               THEN LET diff == Missing(buf1, idx_src_map)
                    IN IF diff = {} THEN [same EXCEPT !.buf = buf1, !.fresh = fresh1]
                       ELSE LET s == idx_src_map[RetryIndex(diff)]
                            IN IF HasReader(readersMap, s)
                               THEN [same EXCEPT !.buf = buf1, !.fresh = fresh1,
                                        !.calls = <<Call("sendData:read", s, 0)>>,
                                        !.pending = AddPending(p, s)]
                               ELSE [same EXCEPT !.buf = buf1, !.fresh = fresh1,
                                        !.rm = Touch(readersMap, s), !.null = TRUE]
               ELSE LET done == Signal("onSeqReadComplete", MapValues(buf1))
                        r == [same EXCEPT !.buf = ClearedBuf(buf1), !.fresh = {},
                                 !.emitted = Append(news, done)]
                    IN IF ~Rearms(period) THEN r
                       ELSE IF ~timer.created THEN [r EXCEPT !.null = TRUE]
                       ELSE [r EXCEPT !.timer = TimerStart(timer, period),
                                !.calls = <<Call("timer:start", EmptyStr, period)>>]

onUpdate(data, ub) ==
    /\ Usable
    /\ \E r \in {OnUpdateResult(data, Answered(pending, data.src))} :
          /\ databuf' = r.buf
          /\ readersMap' = r.rm
          /\ timer' = r.timer
          /\ calls' = r.calls
          /\ emitted' = r.emitted
          /\ pending' = r.pending
          /\ fresh' = r.fresh
          /\ (r.null \/ ub = "lost")
          /\ crashed' = (r.null /\ ub = "crash")
    /\ PendingTotal(pending') <= MaxPending
    /\ lastOp' = "onUpdate"
    /\ UNCHANGED <<context, manual_mode_code, sequential, period,
                   idx_src_map, ctxReaders, ncalls>>

(***************************************************************************)
(* The client, the readers and the timer act in any order                  *)
(***************************************************************************)
Next ==
    \/ \E mode \in Modes : init(mode)
    \/ \E src \in InsertIds, i \in {-1} \cup Indices, ok \in BOOLEAN : insertSource(src, i, ok)
    \/ unsetSources
    \/ \E srcs \in SourceLists, failed \in SUBSET {0} : setSources(srcs, failed)
    \/ \E src \in RemoveIds : removeSource(src)
    \/ \E ms \in Periods : setPeriod(ms)
    \/ \E seq \in BOOLEAN : setSequential(seq)
    \/ \E s \in {SrcA, SrcX} : sendDataSrc(s)
    \/ \E index \in Indices : sendDataIdx(index)
    \/ \E ub \in UBOutcomes : startRead(ub)
    \/ \E ub \in UBOutcomes : timeout(ub)
    \/ \E src \in Labels, v \in Vals, ub \in UBOutcomes : onUpdate(CuData(src, v), ub)

Spec == Init /\ [][Next]_vars

\* the reader of s answers a read that was sent to it
AnswerTo(s) ==
    /\ pending[s] > 0
    /\ \E src \in Labels, v \in Vals, ub \in UBOutcomes :
          ReaderOf(src) = s /\ onUpdate(CuData(src, v), ub)

\* every read that was issued is eventually answered
FairSpec == Spec /\ \A s \in RegIds : WF_vars(AnswerTo(s))

(***************************************************************************)
(* What the last operation did                                             *)
(***************************************************************************)
CompleteEvents == {k \in 1..Len(emitted) : emitted[k].sig = "onSeqReadComplete"}

Completed == CompleteEvents # {}

\* the result handled by the last onUpdate, and the index it resolved to
LastData == emitted[1].data[1]

LastPos == Resolve(idx_src_map, LastData.src)

ReadTo(s) == Call("sendData:read", s, 0)

\* the position of index i among the registered indices, in ascending order
Rank(reg, i) == Cardinality({j \in DOMAIN reg : j <= i})

(***************************************************************************)
(* C1. Every onSeqReadComplete carries exactly one payload per registered  *)
(* source: the length of its payload list equals the number of entries of  *)
(* idx_src_map when it is emitted.                                         *)
(***************************************************************************)
C1_CompleteHasOnePayloadPerSource ==
    \A k \in CompleteEvents :
        Len(emitted[k].data) = Cardinality(DOMAIN idx_src_map)

C1_Witness ==
    /\ lastOp = "onUpdate"
    /\ Completed
    /\ Cardinality(DOMAIN idx_src_map) = 3

(***************************************************************************)
(* C2. onSeqReadComplete fires at most once per cycle: at every emission,  *)
(* each index registered at that moment has had a result buffered since    *)
(* the previous emission (fresh, plus the result being handled).           *)
(***************************************************************************)
C2_AtMostOncePerCycle ==
    [][(lastOp' = "onUpdate" /\ Completed')
        => DOMAIN idx_src_map' \subseteq (fresh \cup {LastPos'})]_vars

\* a second emission: the timer is still armed by an earlier complete cycle,
\* and this complete cycle did not arm it
C2_Witness ==
    /\ lastOp = "onUpdate"
    /\ Completed
    /\ timer.active
    /\ calls = <<>>

(***************************************************************************)
(* C3. The payloads of onSeqReadComplete are ordered by ascending          *)
(* registered index: the payload at the rank of index i is the result last *)
(* buffered for i, whatever the order in which the results arrived.        *)
(***************************************************************************)
C3_CompleteOrderedByIndex ==
    [][(lastOp' = "onUpdate" /\ Completed')
        => /\ Len(emitted'[2].data) = Cardinality(DOMAIN idx_src_map)
           /\ \A i \in DOMAIN idx_src_map :
                 IF i = LastPos'
                 THEN emitted'[2].data[Rank(idx_src_map, i)] = LastData'
                 ELSE /\ i \in DOMAIN databuf
                      /\ emitted'[2].data[Rank(idx_src_map, i)] = databuf[i]]_vars

\* three sources, and the result of the middle index arrived last
C3_Witness ==
    /\ lastOp = "onUpdate"
    /\ Completed
    /\ DOMAIN idx_src_map = {0, 1, 2}
    /\ LastPos = 1
    /\ Len(emitted[2].data) = 3

C5_NoCompleteWhenConcurrent == Completed => sequential

\* a resolved result for the only registered source, in concurrent mode
C5_Witness ==
    /\ lastOp = "onUpdate"
    /\ ~sequential
    /\ Cardinality(DOMAIN idx_src_map) = 1
    /\ LastPos >= 0
    /\ ~Completed

(***************************************************************************)
(* C6. Cancellation safety, as claimed: unsetSources called while a cycle  *)
(* is in flight (some but not all registered indices buffered) leaves      *)
(* idx_src_map and databuf empty and emits no onSeqReadComplete.           *)
(***************************************************************************)
CycleInFlight ==
    /\ DOMAIN databuf # {}
    /\ DOMAIN databuf \subseteq DOMAIN idx_src_map
    /\ DOMAIN databuf # DOMAIN idx_src_map

C6_UnsetMidCycleLeavesAllEmpty ==
    [][(lastOp' = "unsetSources" /\ CycleInFlight)
        => /\ DOMAIN idx_src_map' = {}
           /\ DOMAIN databuf' = {}
           /\ ~Completed']_vars

(***************************************************************************)
(* C7. As claimed: in every reachable state the keys of databuf are keys   *)
(* of idx_src_map.                                                         *)
(***************************************************************************)
C7_BufferWithinRegistry == DOMAIN databuf \subseteq DOMAIN idx_src_map

(***************************************************************************)
(* C8. As claimed: in sequential mode at most one read command issued by   *)
(* the scheduler is outstanding (issued and not yet answered).             *)
(***************************************************************************)
C8_AtMostOneOutstandingRead == sequential => PendingTotal(pending) <= 1

(***************************************************************************)
(* C9. Scenario: A, B, C registered at 0, 1, 2, sequential, period <= 0.   *)
(* startRead issues exactly one read, for A. The result of A is buffered   *)
(* and the read for B follows; the result of C, arriving next, is buffered *)
(* and one retry is issued for index 1 (B). When the result of B arrives,  *)
(* onSeqReadComplete fires once with the payloads of A, B, C in that       *)
(* order, databuf is empty afterwards and the timer is not armed.          *)
(***************************************************************************)
C9_Setup ==
    /\ sequential
    /\ period <= 0
    /\ DOMAIN idx_src_map = {0, 1, 2}
    /\ idx_src_map[0] = SrcA /\ idx_src_map[1] = SrcB /\ idx_src_map[2] = SrcC
    /\ \A s \in {SrcA, SrcB, SrcC} : HasReader(readersMap, s)
    /\ ~timer.active

C9_Scenario ==
    [][C9_Setup =>
        /\ (lastOp' = "startRead" /\ DOMAIN databuf = {})
              => calls' = <<ReadTo(SrcA)>>
        /\ (lastOp' = "onUpdate" /\ DOMAIN databuf = {} /\ LastData'.src = SrcA)
              => /\ databuf' = MapPut(EmptyMap, 0, LastData')
                 /\ calls' = <<ReadTo(SrcB)>>
                 /\ ~Completed'
        /\ (/\ lastOp' = "onUpdate"
            /\ DOMAIN databuf = {0} /\ databuf[0].src = SrcA
            /\ LastData'.src = SrcC)
              => /\ databuf' = MapPut(databuf, 2, LastData')
                 /\ calls' = <<ReadTo(SrcB)>>
                 /\ ~Completed'
        /\ (/\ lastOp' = "onUpdate"
            /\ DOMAIN databuf = {0, 2} /\ databuf[0].src = SrcA /\ databuf[2].src = SrcC
            /\ LastData'.src = SrcB)
              => /\ emitted' = <<Signal("onNewData", <<LastData'>>),
                                 Signal("onSeqReadComplete",
                                        <<databuf[0], LastData', databuf[2]>>)>>
                 /\ DOMAIN databuf' = {}
                 /\ calls' = <<>>
                 /\ timer' = timer]_vars

\* the end of the scenario: the cycle of A, B, C completed by the result of B
C9_Witness ==
    /\ C9_Setup
    /\ lastOp = "onUpdate"
    /\ emitted = <<Signal("onNewData", <<CuData(SrcB, 1)>>),
                   Signal("onSeqReadComplete",
                          <<CuData(SrcA, 1), CuData(SrcB, 1), CuData(SrcC, 1)>>)>>
    /\ DOMAIN databuf = {}
    /\ calls = <<>>

(***************************************************************************)
(* C10. Periodic re-arm, as claimed: in sequential mode with period > 0    *)
(* every onSeqReadComplete is followed by arming the one-shot timer with   *)
(* the current period, and the expiry of the timer does what startRead     *)
(* does: one read to the source of the lowest index.                       *)
(***************************************************************************)
C10_RearmAfterComplete ==
    [][/\ (lastOp' = "onUpdate" /\ Completed' /\ period > 0)
            => /\ timer'.created
               /\ timer'.active
               /\ timer'.interval = period
       /\ (lastOp' = "timeout" /\ timer.active /\ DOMAIN idx_src_map # {})
            => /\ ~timer'.active
               /\ calls' = <<ReadTo(idx_src_map[Min(DOMAIN idx_src_map)])>>]_vars

(***************************************************************************)
(* C11. No-args matching, as claimed: a result whose label carries call     *)
(* arguments and equals no registered id resolves to the index where the   *)
(* bare form is registered (the lowest one, if it is registered more than  *)
(* once) and, in sequential mode, is buffered at that index: it is in      *)
(* databuf after the call, or in the payload of the onSeqReadComplete it   *)
(* completed.                                                              *)
(***************************************************************************)
IndicesOf(reg, s) == {k \in DOMAIN reg : reg[k] = s}

\* the indices whose registered id has the same text before the first '(' as s
BareIndicesOf(reg, s) == {k \in DOMAIN reg : Section(reg[k]) = Section(s)}

C11_NoArgsMatching ==
    [][\A v \in Vals, ub \in UBOutcomes :
          (/\ onUpdate(CuData(SrcCArgs, v), ub)
           /\ IndicesOf(idx_src_map, SrcCArgs) = {}
           /\ IndicesOf(idx_src_map, SrcC) # {})
          => LET k == Min(IndicesOf(idx_src_map, SrcC))
             IN /\ Resolve(idx_src_map, SrcCArgs) = k
                /\ sequential =>
                     IF Completed'
                     THEN emitted'[2].data[Rank(idx_src_map, k)] = CuData(SrcCArgs, v)
                     ELSE /\ k \in DOMAIN databuf'
                          /\ databuf'[k] = CuData(SrcCArgs, v)]_vars

(***************************************************************************)
(* C11, amended. Such a result resolves to the lowest index whose          *)
(* registered id has the same text before the first '(' as the label,      *)
(* whether that id is the bare form or carries arguments of its own, and   *)
(* in sequential mode it is buffered at that index.                        *)
(***************************************************************************)
C11_LowestBareMatch ==
    [][\A v \in Vals, ub \in UBOutcomes :
          (/\ onUpdate(CuData(SrcCArgs, v), ub)
           /\ IndicesOf(idx_src_map, SrcCArgs) = {}
           /\ BareIndicesOf(idx_src_map, SrcCArgs) # {})
          => LET k == Min(BareIndicesOf(idx_src_map, SrcCArgs))
             IN /\ Resolve(idx_src_map, SrcCArgs) = k
                /\ sequential =>
                     IF Completed'
                     THEN emitted'[2].data[Rank(idx_src_map, k)] = CuData(SrcCArgs, v)
                     ELSE /\ k \in DOMAIN databuf'
                          /\ databuf'[k] = CuData(SrcCArgs, v)]_vars

\* the result labelled C(1) sits in databuf at index 2, where C is registered
C11_Witness ==
    /\ lastOp = "onUpdate"
    /\ sequential
    /\ LastData.src = SrcCArgs
    /\ 2 \in DOMAIN idx_src_map
    /\ idx_src_map[2] = SrcC
    /\ 2 \in DOMAIN databuf
    /\ databuf[2] = LastData

(***************************************************************************)
(* C12. Every incoming result produces exactly one onNewData carrying that *)
(* result, in every mode and whether or not its label resolves; when the   *)
(* result also completes a cycle, onNewData comes before                   *)
(* onSeqReadComplete.                                                      *)
(***************************************************************************)
NewDataEventsOf(ev) == {k \in 1..Len(ev) : ev[k].sig = "onNewData"}

C12_OneNewDataPerResult ==
    [][\A src \in Labels, v \in Vals, ub \in UBOutcomes :
          onUpdate(CuData(src, v), ub)
          => /\ Cardinality(NewDataEventsOf(emitted')) = 1
             /\ \A k \in NewDataEventsOf(emitted') :
                   /\ emitted'[k].data = <<CuData(src, v)>>
                   /\ \A c \in CompleteEvents' : k < c]_vars

\* an unresolved result in concurrent mode, forwarded all the same
C12_Witness ==
    /\ lastOp = "onUpdate"
    /\ ~sequential
    /\ emitted = <<Signal("onNewData", <<CuData(SrcX, 1)>>)>>
    /\ DOMAIN idx_src_map # {}

(***************************************************************************)
(* C13. As claimed: the reader stays usable after any error or             *)
(* cancellation condition. Once the client has made its configuration      *)
(* calls, whatever they were, and the reader is sequential with at least   *)
(* one source registered with a live reader, a startRead eventually leads  *)
(* to an onSeqReadComplete, provided every issued read is eventually       *)
(* answered.                                                               *)
(***************************************************************************)
C13_StartLeadsToComplete ==
    [](( /\ lastOp = "startRead"
         /\ sequential
         /\ \E k \in DOMAIN idx_src_map : HasReader(readersMap, idx_src_map[k])
         /\ ncalls = MaxCalls) => <>Completed)

C15_FailedBindingSkipped ==
    [][\A srcs \in SourceLists, failed \in SUBSET {0} :
          setSources(srcs, failed)
          => \A i \in 0..(Len(srcs) - 1) :
                IF i \in failed
                THEN /\ i \notin DOMAIN idx_src_map'
                     /\ (\A j \in (0..(Len(srcs) - 1)) \ failed :
                              Canon(srcs[j + 1]) # Canon(srcs[i + 1]))
                         => Canon(srcs[i + 1]) \notin DOMAIN readersMap'
                ELSE /\ i \in DOMAIN idx_src_map'
                     /\ idx_src_map'[i] = Canon(srcs[i + 1])
                     /\ HasReader(readersMap', Canon(srcs[i + 1]))]_vars

\* setSources([a, B, ...]) where the reader of a could not be created
C15_Witness ==
    /\ lastOp = "setSources"
    /\ \E k \in 1..Len(calls) : calls[k] = Call("add_reader", SrcAlias, 0)
    /\ SrcA \notin DOMAIN readersMap
    /\ DOMAIN idx_src_map = {1}
    /\ idx_src_map[1] = SrcB

(***************************************************************************)
(* C16. A result whose label matches no registered id, neither exactly nor *)
(* without arguments, is forwarded as one onNewData and has no other       *)
(* effect: databuf and idx_src_map are unchanged, no read is issued, no    *)
(* onSeqReadComplete is emitted and the timer is not started.              *)
(***************************************************************************)
C16_UnmatchedOnlyForwarded ==
    [][\A src \in Labels, v \in Vals, ub \in UBOutcomes :
          (onUpdate(CuData(src, v), ub) /\ BareIndicesOf(idx_src_map, src) = {})
          => /\ emitted' = <<Signal("onNewData", <<CuData(src, v)>>)>>
             /\ calls' = <<>>
             /\ UNCHANGED <<databuf, idx_src_map, readersMap, timer, fresh>>
             /\ ~crashed']_vars

\* an unknown result in the middle of a sequential cycle
C16_Witness ==
    /\ lastOp = "onUpdate"
    /\ sequential
    /\ LastData.src = SrcX
    /\ DOMAIN idx_src_map = {0, 1}
    /\ DOMAIN databuf = {0}
    /\ calls = <<>>

(***************************************************************************)
(* C17. As claimed: sendData addressed to an id or to an index that is not *)
(* registered is a no-op: no command is delivered, and idx_src_map,        *)
(* readersMap and databuf are unchanged.                                   *)
(***************************************************************************)
C17_SendToUnknownIsNoOp ==
    [][/\ \A index \in Indices :
             (sendDataIdx(index) /\ index \notin DOMAIN idx_src_map)
             => /\ calls' = <<>>
                /\ emitted' = <<>>
                /\ UNCHANGED <<idx_src_map, readersMap, databuf>>
       /\ \A s \in {SrcA, SrcX} :
             (sendDataSrc(s) /\ s \notin DOMAIN readersMap)
             => /\ calls' = <<>>
                /\ emitted' = <<>>
                /\ UNCHANGED <<idx_src_map, readersMap, databuf>>]_vars

(***************************************************************************)
(* C18. As claimed: removeSource(src) of a registered source, at any time, *)
(* disposes its reader, removes its index from idx_src_map and from        *)
(* databuf, and emits no onSeqReadComplete.                                *)
(***************************************************************************)
C18_RemovePurgesIndex ==
    [][\A src \in RemoveIds :
          (removeSource(src) /\ IndicesOf(idx_src_map, src) # {})
          => LET k == Min(IndicesOf(idx_src_map, src))
             IN /\ calls' = <<Call("disposeReader", src, 0)>>
                /\ k \notin DOMAIN idx_src_map'
                /\ k \notin DOMAIN databuf'
                /\ ~Completed']_vars

(***************************************************************************)
(* C19. As claimed: removeSource(src) for a source that is not registered  *)
(* leaves idx_src_map as it was, the entry at index 0 included.            *)
(***************************************************************************)
C19_RemoveUnknownKeepsRegistry ==
    [][\A src \in RemoveIds :
          (removeSource(src) /\ IndicesOf(idx_src_map, src) = {})
          => idx_src_map' = idx_src_map]_vars

(***************************************************************************)
(* C20. setSources(srcs) replaces the sources: afterwards sources() is the *)
(* list of the canonical ids of the sources of srcs whose reader was       *)
(* created, in list order, whatever idx_src_map held before.               *)
(***************************************************************************)
RECURSIVE CreatedFrom(_, _, _)
CreatedFrom(srcs, i, failed) ==
    IF i >= Len(srcs) THEN <<>>
    ELSE (IF i \in failed THEN <<>> ELSE <<Canon(srcs[i + 1])>>)
         \o CreatedFrom(srcs, i + 1, failed)

C20_SetSourcesReplaces ==
    [][\A srcs \in SourceLists, failed \in SUBSET {0} :
          setSources(srcs, failed)
          => /\ sources' = CreatedFrom(srcs, 0, failed)
             /\ DOMAIN idx_src_map' = (0..(Len(srcs) - 1)) \ failed]_vars

\* [a, B] replaced three sources: the result buffered at index 2 tells that
\* index 2 was registered before the call
C20_Witness ==
    /\ lastOp = "setSources"
    /\ sources = <<SrcA, SrcB>>
    /\ DOMAIN idx_src_map = {0, 1}
    /\ 2 \in DOMAIN databuf

(***************************************************************************)
(* C21. As claimed: startRead is a no-op when idx_src_map is empty (no     *)
(* command, no error, no state change); when it is not empty and the       *)
(* reader is sequential, it issues exactly one read, to the reader of the  *)
(* lowest registered index, and changes neither idx_src_map nor databuf.   *)
(***************************************************************************)
C21_StartReadsFirstSource ==
    [][\A ub \in UBOutcomes :
          startRead(ub)
          => IF DOMAIN idx_src_map = {}
             THEN /\ calls' = <<>>
                  /\ ~crashed'
                  /\ UNCHANGED <<idx_src_map, readersMap, databuf, timer, pending>>
             ELSE sequential
                  => /\ calls' = <<ReadTo(idx_src_map[Min(DOMAIN idx_src_map)])>>
                     /\ ~crashed'
                     /\ UNCHANGED <<idx_src_map, databuf>>]_vars

(***************************************************************************)
(* C22. As claimed: when the reader is not sequential, setPeriod(ms)       *)
(* stores ms and sends one period command carrying ms to every reader of   *)
(* the context, for every value of ms, and leaves the timer alone.         *)
(***************************************************************************)
PeriodSentToAll(cs, readers, ms) ==
    /\ Len(cs) = Cardinality(readers)
    /\ \A r \in readers : \E k \in 1..Len(cs) : cs[k] = Call("sendData:period", r, ms)

C23_ManualCycleOnlyByStart ==
    [][(/\ sequential
        /\ period <= 0
        /\ DOMAIN databuf = {}
        /\ PendingTotal(pending) = 0
        /\ lastOp' \notin {"startRead", "onUpdate"})
        => \A k \in 1..Len(calls') : calls'[k].call # "sendData:read"]_vars

(***************************************************************************)
(* C24. As claimed: the mode passed to init selects the policy that is     *)
(* documented: the reader is sequential after init exactly when the mode   *)
(* is SequentialReads or SequentialManual; with ConcurrentReads or a       *)
(* negative mode it is not sequential.                                     *)
(***************************************************************************)
C24_InitModeSelectsPolicy ==
    [][\A mode \in Modes :
          init(mode)
          => sequential' = (mode \in {SequentialReads, SequentialManual})]_vars

(***************************************************************************)
(* The revision of the reader that has the factory methods                 *)
(* (src/unnamed/part_001).  It keeps the policy in one field, mode, held   *)
(* here by manual_mode_code; sequential mirrors the accessor sequential(). *)
(* sendData, unsetSources, removeSource, startRead, m_timerSetup and       *)
(* m_matchNoArgs are the same text in both revisions and are shared.       *)
(* The variables describe the reader the client holds: after a factory     *)
(* method returned a new reader, that reader.  No code of this revision    *)
(* starts the timer, so it has no expiry step.                             *)
(***************************************************************************)
\* sequential(): return d->mode >= SequentialReads
P1_sequential(mode) == mode >= SequentialReads

\* d->period after the constructor and init: if(d->mode >= SequentialManual) d->period = -1
P1_InitPeriod(p, mode) == IF mode >= SequentialManual THEN -1 ELSE p

InitP1 ==
    /\ context = "null"
    /\ manual_mode_code = SequentialReads
    /\ sequential = P1_sequential(SequentialReads)
    /\ period = DefaultPeriod
    /\ timer = NoTimer
    /\ readersMap = EmptyMap
    /\ idx_src_map = EmptyMap
    /\ databuf = EmptyMap
    /\ ctxReaders = {}
    /\ pending = NoPending
    /\ calls = <<>>
    /\ emitted = <<>>
    /\ lastOp = "ctor"
    /\ ncalls = 0
    /\ fresh = {}
    /\ crashed = FALSE

P1_init(mode) ==
    /\ context = "null"
    /\ ~crashed
    /\ context' = "ctx"
    /\ manual_mode_code' = mode
    /\ sequential' = P1_sequential(mode)
    /\ period' = P1_InitPeriod(period, mode)
    /\ calls' = <<>>
    /\ emitted' = <<>>
    /\ lastOp' = "init"
    /\ UNCHANGED <<timer, readersMap, idx_src_map, databuf, ctxReaders,
                   pending, ncalls, fresh, crashed>>

\* manual_refresh ? SequentialManual : SequentialReads
P1_GetMode(manual_refresh) == IF manual_refresh THEN SequentialManual ELSE SequentialReads

\* r = new QuMultiReader(parent); r->init(pool, fpool, mode); return r,
\* or perr(...) and return nullptr when this reader has no context
P1_NewReader(mode, op) ==
    /\ ~crashed
    /\ ncalls < MaxCalls
    /\ ncalls' = ncalls + 1
    /\ IF context = "null"
       THEN /\ calls' = <<Call("perr", EmptyStr, 0)>>
            /\ UNCHANGED <<context, manual_mode_code, sequential, period, timer,
                           readersMap, idx_src_map, databuf, ctxReaders, pending, fresh>>
       ELSE /\ calls' = <<Call("new QuMultiReader", EmptyStr, 0), Call("init", EmptyStr, mode)>>
            /\ context' = "ctx"
            /\ manual_mode_code' = mode
            /\ sequential' = P1_sequential(mode)
            /\ period' = P1_InitPeriod(DefaultPeriod, mode)
            /\ timer' = NoTimer
            /\ readersMap' = EmptyMap
            /\ idx_src_map' = EmptyMap
            /\ databuf' = EmptyMap
            /\ ctxReaders' = {}
            /\ pending' = NoPending
            /\ fresh' = {}
    /\ emitted' = <<>>
    /\ lastOp' = op
    /\ UNCHANGED crashed

P1_getMultiSequentialReader(manual_refresh) ==
    P1_NewReader(P1_GetMode(manual_refresh), "getMultiSequentialReader")

P1_getMultiConcurrentReader ==
    P1_NewReader(ConcurrentReads, "getMultiConcurrentReader")

\* the options insertSource passes to the context
P1_Options(mode, p) ==
    IF mode >= SequentialManual THEN Call("setOptions:manual", EmptyStr, 0)
    ELSE IF mode = SequentialReads /\ p > 0 THEN Call("setOptions:polled", EmptyStr, p)
    ELSE Call("setOptions", EmptyStr, 0)

\* a variant that sets the timer up in the manual mode as well
P1_TimerWantedIfSequential(mode) == mode >= SequentialReads

\* if(d->idx_src_map.size() == 1 && d->mode == SequentialReads) m_timerSetup()
P1_TimerWanted(mode) == mode = SequentialReads

\* with i < 0 only the options are skipped: the reader is added and registered at i
P1_InsertInto(st, src, i, ok) ==
    LET c1 == IF i < 0 THEN st.calls
              ELSE Append(st.calls, P1_Options(manual_mode_code, period))
        c2 == Append(c1, Call("add_reader", src, 0))
        rm1 == IF ok THEN MapPut(st.rm, Canon(src), "live") ELSE st.rm
        reg1 == IF ok THEN MapPut(st.reg, i, Canon(src)) ELSE st.reg
        ctx1 == IF ok THEN st.ctx \cup {Canon(src)} ELSE st.ctx
        t1 == IF Cardinality(DOMAIN reg1) = 1 /\ P1_TimerWanted(manual_mode_code)
              THEN m_timerSetup(st.timer) ELSE st.timer
    IN RegState(reg1, rm1, ctx1, t1, c2)

P1_insertSource(src, i, ok) ==
    /\ ConfigCall
    /\ \E st \in {P1_InsertInto(RegState(idx_src_map, readersMap, ctxReaders, timer, <<>>),
                                src, i, ok)} :
          /\ idx_src_map' = st.reg
          /\ readersMap' = st.rm
          /\ ctxReaders' = st.ctx
          /\ timer' = st.timer
          /\ calls' = st.calls
    /\ emitted' = <<>>
    /\ lastOp' = "insertSource"
    /\ UNCHANGED <<context, manual_mode_code, sequential, period, databuf,
                   pending, fresh, crashed>>

RECURSIVE P1_InsertAll(_, _, _, _)
P1_InsertAll(st, srcs, i, failed) ==
    IF i >= Len(srcs) THEN st
    ELSE P1_InsertAll(P1_InsertInto(st, srcs[i + 1], i, (i \notin failed)), srcs, i + 1, failed)

P1_setSources(srcs, failed) ==
    /\ ConfigCall
    /\ \E st \in {P1_InsertAll(UnsetAll(<<>>), srcs, 0, failed)} :
          /\ idx_src_map' = st.reg
          /\ readersMap' = st.rm
          /\ ctxReaders' = st.ctx
          /\ timer' = st.timer
          /\ calls' = st.calls
    /\ pending' = NoPending
    /\ emitted' = <<>>
    /\ lastOp' = "setSources"
    /\ UNCHANGED <<context, manual_mode_code, sequential, period, databuf,
                   fresh, crashed>>

\* if(d->mode == SequentialReads && ms > 0): period and refresh_mode to every reader
P1_PeriodCommands(mode, ms, readers) ==
    IF mode = SequentialReads /\ ms > 0
    THEN [k \in 1..Len(readers) |-> Call("sendData:period", readers[k], ms)]
    ELSE <<>>

P1_setPeriod(ms) ==
    /\ ConfigCall
    /\ period' = ms
    /\ calls' = P1_PeriodCommands(manual_mode_code, ms, SetToSeq(ctxReaders))
    /\ emitted' = <<>>
    /\ lastOp' = "setPeriod"
    /\ UNCHANGED <<context, manual_mode_code, sequential, timer, readersMap,
                   idx_src_map, databuf, ctxReaders, pending, fresh, crashed>>

\* seq ? d->mode = SequentialReads : d->mode = ConcurrentReads
P1_setSequential(seq) ==
    /\ ConfigCall
    /\ manual_mode_code' = (IF seq THEN SequentialReads ELSE ConcurrentReads)
    /\ sequential' = P1_sequential(manual_mode_code')
    /\ calls' = <<>>
    /\ emitted' = <<>>
    /\ lastOp' = "setSequential"
    /\ UNCHANGED <<context, period, timer, readersMap,
                   idx_src_map, databuf, ctxReaders, pending, fresh, crashed>>

\* [buf, emitted, fresh] after onUpdate(data): every resolved result is buffered and
\* the whole buffer notified; a full buffer is notified as complete when sequential
P1_OnUpdateResult(data) ==
    LET pos == Resolve(idx_src_map, data.src)
        one == <<Signal("onNewData", <<data>>)>>
    IN IF pos < 0 THEN [buf |-> databuf, emitted |-> one, fresh |-> fresh]
       ELSE LET buf1 == MapPut(databuf, pos, data)
                all == Append(one, Signal("onNewData", MapValues(buf1)))
            IN IF manual_mode_code >= SequentialReads /\ DOMAIN buf1 = DOMAIN idx_src_map
               THEN [buf |-> EmptyMap,
                     emitted |-> Append(all, Signal("onSeqReadComplete", MapValues(buf1))),
                     fresh |-> {}]
               ELSE [buf |-> buf1, emitted |-> all, fresh |-> fresh \cup {pos}]

P1_onUpdate(data) ==
    /\ Usable
    /\ \E r \in {P1_OnUpdateResult(data)} :
          /\ databuf' = r.buf
          /\ emitted' = r.emitted
          /\ fresh' = r.fresh
    /\ pending' = Answered(pending, data.src)
    /\ calls' = <<>>
    /\ lastOp' = "onUpdate"
    /\ UNCHANGED <<context, manual_mode_code, sequential, period, timer, readersMap,
                   idx_src_map, ctxReaders, ncalls, crashed>>

NextP1 ==
    \/ \E mode \in Modes : P1_init(mode)
    \/ \E manual_refresh \in BOOLEAN : P1_getMultiSequentialReader(manual_refresh)
    \/ P1_getMultiConcurrentReader
    \/ \E src \in InsertIds, i \in {-1} \cup Indices, ok \in BOOLEAN : P1_insertSource(src, i, ok)
    \/ unsetSources
    \/ \E srcs \in SourceLists, failed \in SUBSET {0} : P1_setSources(srcs, failed)
    \/ \E src \in RemoveIds : removeSource(src)
    \/ \E ms \in Periods : P1_setPeriod(ms)
    \/ \E seq \in BOOLEAN : P1_setSequential(seq)
    \/ \E s \in {SrcA, SrcX} : sendDataSrc(s)
    \/ \E index \in Indices : sendDataIdx(index)
    \/ \E ub \in UBOutcomes : startRead(ub)
    \/ \E src \in Labels, v \in Vals : P1_onUpdate(CuData(src, v))

SpecP1 == InitP1 /\ [][NextP1]_vars

\* the last step issued a read command
ReadIssued(cs) == \E k \in 1..Len(cs) : cs[k].call = "sendData:read"

\* what a factory method returns: no reader, or a new reader initialised with mode
ReturnsNull(cs) == cs = <<Call("perr", EmptyStr, 0)>>

ReturnsReader(cs, mode) ==
    cs = <<Call("new QuMultiReader", EmptyStr, 0), Call("init", EmptyStr, mode)>>

(***************************************************************************)
(* C25. A reader obtained from getMultiSequentialReader(parent, true) is   *)
(* sequential with period <= 0 and has no timer; in the manual mode no     *)
(* timer is ever created and no timer is ever armed; a read command is     *)
(* issued only by a startRead call; getMultiSequentialReader and           *)
(* getMultiConcurrentReader return no reader, and change nothing, when     *)
(* they are called before init.                                            *)
(***************************************************************************)
C25_ManualReaderReadsOnlyOnStart ==
    [][/\ \A manual_refresh \in BOOLEAN :
            P1_getMultiSequentialReader(manual_refresh)
            => IF context = "null"
               THEN /\ ReturnsNull(calls')
                    /\ UNCHANGED <<context, manual_mode_code, period, timer, idx_src_map>>
               ELSE /\ ReturnsReader(calls', P1_GetMode(manual_refresh))
                    /\ manual_mode_code' = P1_GetMode(manual_refresh)
                    /\ sequential'
                    /\ manual_refresh => period' <= 0
                    /\ timer' = NoTimer
       /\ P1_getMultiConcurrentReader
            => IF context = "null"
               THEN /\ ReturnsNull(calls')
                    /\ UNCHANGED <<context, manual_mode_code, period, timer, idx_src_map>>
               ELSE ReturnsReader(calls', ConcurrentReads) /\ ~sequential'
       /\ manual_mode_code' = SequentialManual => sequential' /\ ~timer'.created
       /\ ~timer'.active
       /\ ReadIssued(calls') => lastOp' = "startRead"]_vars

\* a reader was obtained with manual_refresh = true
C25_Witness ==
    /\ lastOp = "getMultiSequentialReader"
    /\ ReturnsReader(calls, SequentialManual)
    /\ manual_mode_code = SequentialManual
    /\ period = -1

\* the labels that carry no arguments
BareLabels == {l \in Labels : Section(l) = l}

\* the reference resolution: an exact match first, then the lowest index whose id has
\* the same text before the first '(', then nothing
ReferenceIndex(reg, rawId) ==
    IF IndicesOf(reg, rawId) # {} THEN Min(IndicesOf(reg, rawId))
    ELSE IF BareIndicesOf(reg, rawId) # {} THEN Min(BareIndicesOf(reg, rawId))
    ELSE NoMatch

(***************************************************************************)
(* C26. For every label and every registry the reader can hold, the index  *)
(* a result resolves to equals the reference function: the (lowest) index  *)
(* of the registered id equal to the label if there is one, whatever       *)
(* matches without arguments; otherwise the lowest index whose id has the  *)
(* same text before the first parenthesis; otherwise no index.             *)
(***************************************************************************)
C26_ResolveEqualsReference ==
    \A l \in Labels : Resolve(idx_src_map, l) = ReferenceIndex(idx_src_map, l)

\* C(2) at 0 and C at 1: the result labelled C was buffered at 1, its exact match
C26_Witness ==
    /\ lastOp = "onUpdate"
    /\ sequential
    /\ 0 \in DOMAIN idx_src_map /\ idx_src_map[0] = SrcCOther
    /\ 1 \in DOMAIN idx_src_map /\ idx_src_map[1] = SrcC
    /\ LastData.src = SrcC
    /\ DOMAIN databuf = {1}
    /\ databuf[1] = LastData

(***************************************************************************)
(* C27. As claimed: a result whose label carries no parenthesis and equals *)
(* no registered id is unresolved and does not enter databuf.              *)
(***************************************************************************)
C27_BareLabelUnresolved ==
    [][\A src \in BareLabels, v \in Vals, ub \in UBOutcomes :
          (/\ onUpdate(CuData(src, v), ub)
           /\ IndicesOf(idx_src_map, src) = {})
          => /\ Resolve(idx_src_map, src) = NoMatch
             /\ databuf' = databuf
             /\ ~Completed']_vars

(***************************************************************************)
(* C27, amended. The fallback applies to every label that equals no        *)
(* registered id, with or without parenthesis: such a label without        *)
(* parenthesis resolves to the lowest index whose registered id has the    *)
(* same text before its first '(' and, in sequential mode, is buffered     *)
(* there; it is unresolved, and databuf is left alone, only when no        *)
(* registered id has that text before its first '('.                       *)
(***************************************************************************)
C27_BareLabelFallsBack ==
    [][\A src \in BareLabels, v \in Vals, ub \in UBOutcomes :
          (/\ onUpdate(CuData(src, v), ub)
           /\ IndicesOf(idx_src_map, src) = {})
          => IF BareIndicesOf(idx_src_map, src) = {}
             THEN /\ Resolve(idx_src_map, src) = NoMatch
                  /\ databuf' = databuf
                  /\ ~Completed'
             ELSE LET k == Min(BareIndicesOf(idx_src_map, src))
                  IN /\ Resolve(idx_src_map, src) = k
                     /\ sequential =>
                          IF Completed'
                          THEN emitted'[2].data[Rank(idx_src_map, k)] = CuData(src, v)
                          ELSE /\ k \in DOMAIN databuf'
                               /\ databuf'[k] = CuData(src, v)]_vars

\* only C(2) is registered under the text C, and the result labelled C sits at its index
C27_Witness ==
    /\ lastOp = "onUpdate"
    /\ sequential
    /\ LastData.src = SrcC
    /\ IndicesOf(idx_src_map, SrcC) = {}
    /\ BareIndicesOf(idx_src_map, SrcC) # {}
    /\ LastPos \in DOMAIN databuf
    /\ idx_src_map[LastPos] = SrcCOther
    /\ databuf[LastPos] = LastData

(***************************************************************************)
(* C28. While the reader is not sequential, onUpdate leaves databuf as it  *)
(* is (empty if it was empty), sends no read command and starts no timer,  *)
(* for every result, resolved or not.                                      *)
(***************************************************************************)
C28_ConcurrentUpdateLeavesBuffer ==
    [][\A src \in Labels, v \in Vals, ub \in UBOutcomes :
          (onUpdate(CuData(src, v), ub) /\ ~sequential)
          => /\ databuf' = databuf
             /\ timer' = timer
             /\ calls' = <<>>
             /\ ~crashed']_vars

\* a resolved result arrived while databuf held the rest of an unfinished cycle
C28_Witness ==
    /\ lastOp = "onUpdate"
    /\ ~sequential
    /\ DOMAIN databuf # {}
    /\ LastPos >= 0
    /\ LastPos \notin DOMAIN databuf
    /\ calls = <<>>

(***************************************************************************)
(* C29. setSequential changes the policy only: it sends no command and no  *)
(* option to any reader and leaves idx_src_map, readersMap, the readers of *)
(* the context, databuf, the period and the timer unchanged.               *)
(***************************************************************************)
C29_SetSequentialOnlySetsPolicy ==
    [][\A seq \in BOOLEAN :
          setSequential(seq)
          => /\ sequential' = seq
             /\ calls' = <<>>
             /\ UNCHANGED <<idx_src_map, readersMap, ctxReaders, databuf, period, timer>>]_vars

\* the reader became sequential with a source registered, and has no timer
C29_Witness ==
    /\ lastOp = "setSequential"
    /\ sequential
    /\ DOMAIN idx_src_map # {}
    /\ \A k \in DOMAIN idx_src_map : HasReader(readersMap, idx_src_map[k])
    /\ timer = NoTimer

(***************************************************************************)
(* C30. As claimed: while the reader is sequential, setPeriod(ms) sends no *)
(* command and changes neither idx_src_map nor databuf; and when a cycle   *)
(* completes the stored period decides: the timer is armed with it if it   *)
(* is > 0, and the timer is not armed if it is <= 0.                       *)
(***************************************************************************)
C30_PeriodDecidesAtCompletion ==
    [][/\ \A ms \in Periods :
            (setPeriod(ms) /\ sequential)
            => /\ period' = ms
               /\ calls' = <<>>
               /\ UNCHANGED <<idx_src_map, databuf, timer>>
       /\ (lastOp' = "onUpdate" /\ sequential /\ Completed')
            => IF period > 0
               THEN /\ timer'.active
                    /\ timer'.interval = period
                    /\ ~crashed'
               ELSE timer' = timer]_vars

\* no id is registered at two indices
DistinctIds(reg) == \A i, j \in DOMAIN reg : reg[i] = reg[j] => i = j

(***************************************************************************)
(* C31. As claimed: idx_src_map is a one-to-one mapping between indices    *)
(* and ids: in every reachable state no id is registered at two different  *)
(* indices (each index maps to one id by construction of the map).         *)
(***************************************************************************)
C31_RegistryOneToOne == DistinctIds(idx_src_map)

(***************************************************************************)
(* C32. As claimed: once the registry is fixed (the client makes no more   *)
(* configuration calls), not empty and of pairwise distinct ids, and       *)
(* databuf is empty, every startRead, by the client or by the expiry of    *)
(* the timer, of a sequential reader is eventually followed by an          *)
(* onSeqReadComplete, provided every issued read is eventually answered.   *)
(***************************************************************************)
C32_CycleProgress ==
    [](( /\ lastOp \in {"startRead", "timeout"}
         /\ sequential
         /\ DOMAIN idx_src_map # {}
         /\ DistinctIds(idx_src_map)
         /\ DOMAIN databuf = {}
         /\ ncalls = MaxCalls) => <>Completed)

\* every registered id has a reader that exists
AllBound(reg, rm) == \A k \in DOMAIN reg : HasReader(rm, reg[k])

(***************************************************************************)
(* C33. As claimed: in every reachable state every id stored in            *)
(* idx_src_map has a reader that exists (not null) in readersMap.          *)
(***************************************************************************)
C33_EveryIdBound == AllBound(idx_src_map, readersMap)

(***************************************************************************)
(* C34. As claimed: whenever a cycle completes on a sequential reader with *)
(* period > 0, the timer has been created.                                 *)
(***************************************************************************)
C34_TimerExistsAtCompletion ==
    (lastOp = "onUpdate" /\ Completed /\ sequential /\ period > 0) => timer.created

(***************************************************************************)
(* C35. On a sequential reader, a result that resolves to an index already *)
(* present in databuf replaces the payload stored at that index and does   *)
(* nothing else: no read is sent, no onSeqReadComplete is emitted, the     *)
(* timer is not started.                                                   *)
(***************************************************************************)
C35_UpdateReplacesOnly ==
    [][\A src \in Labels, v \in Vals, ub \in UBOutcomes :
          (/\ onUpdate(CuData(src, v), ub)
           /\ sequential
           /\ Resolve(idx_src_map, src) \in DOMAIN databuf)
          => /\ databuf' = MapPut(databuf, Resolve(idx_src_map, src), CuData(src, v))
             /\ calls' = <<>>
             /\ ~Completed'
             /\ timer' = timer
             /\ ~crashed']_vars

\* a second result for a buffered index, labelled otherwise than the first, while
\* another index is still missing: it sits in databuf and no retry was sent
C35_Witness ==
    /\ lastOp = "onUpdate"
    /\ sequential
    /\ AllBound(idx_src_map, readersMap)
    /\ DOMAIN databuf \subseteq DOMAIN idx_src_map
    /\ DOMAIN databuf # DOMAIN idx_src_map
    /\ LastPos \in DOMAIN databuf
    /\ databuf[LastPos] = LastData
    /\ LastData.src # idx_src_map[LastPos]
    /\ calls = <<>>
    /\ ~Completed

(***************************************************************************)
(* C36. As claimed: from every registry, insertSource(id, i) at an index   *)
(* i >= 0 that is not in use, with a reader created, followed by           *)
(* removeSource of the id as registered gives back idx_src_map and         *)
(* readersMap exactly as they were, also when the id was already           *)
(* registered at another index.                                            *)
(***************************************************************************)
C36_InsertRemoveRoundTrip ==
    \A src \in InsertIds, i \in Indices \ DOMAIN idx_src_map :
        LET st0 == RegState(idx_src_map, readersMap, ctxReaders, timer, <<>>)
            st2 == RemoveFrom(InsertInto(st0, src, i, TRUE), Canon(src))
        IN st2.reg = idx_src_map /\ st2.rm = readersMap

\* onUpdate of the revision without retry (src/unnamed/part_000): every resolved
\* result of a sequential reader is buffered and the completeness checked
P0_OnUpdateResult(data) ==
    LET pos == Resolve(idx_src_map, data.src)
        news == <<Signal("onNewData", <<data>>)>>
    IN IF ~(sequential /\ pos >= 0) THEN [buf |-> databuf, emitted |-> news]
       ELSE LET buf1 == MapPut(databuf, pos, data)
            IN IF DOMAIN buf1 = DOMAIN idx_src_map
               THEN [buf |-> EmptyMap,
                     emitted |-> Append(news, Signal("onSeqReadComplete", MapValues(buf1)))]
               ELSE [buf |-> buf1, emitted |-> news]

\* databuf was filled under the registry as it is: it lacks a registered index
WithinCycle(buf, reg) == DOMAIN buf \subseteq DOMAIN reg /\ DOMAIN buf # DOMAIN reg

(***************************************************************************)
(* C37. As claimed: with the registry fixed, the reader and the revision   *)
(* without retry go on emitting the same onSeqReadComplete events with    *)
(* the same payloads and keep the same databuf after every result: from    *)
(* every state of a cycle under the registry, the result handled by        *)
(* onUpdate gives the databuf and the signals the revision without retry   *)
(* gives, and the reader is there to handle the next result.               *)
(***************************************************************************)
C37_SameAsWithoutRetry ==
    [][\A src \in Labels, v \in Vals, ub \in UBOutcomes :
          (/\ onUpdate(CuData(src, v), ub)
           /\ WithinCycle(databuf, idx_src_map))
          => \E h \in {P0_OnUpdateResult(CuData(src, v))} :
                /\ databuf' = h.buf
                /\ emitted' = h.emitted
                /\ ~crashed']_vars
====
